---- MODULE Spec2Model ----
(***************************************************************************)
(* Model of app.py: the Indonesian film monitoring dashboard.              *)
(*                                                                         *)
(* The script is a Streamlit page: every widget interaction re-runs it     *)
(* from the top.  One run is modelled as a sequence of steps (pc), one per *)
(* statement group of the script; the widgets' values (year_range, search) *)
(* and the st.cache_data store survive between runs, every other variable  *)
(* is a script global that is rebuilt by each run.                         *)
(*                                                                         *)
(* Strings are sequences of one-character strings, so that splitting,      *)
(* digit extraction, case folding, ordering and pattern matching are       *)
(* computed rather than assumed.                                           *)
(***************************************************************************)
EXTENDS Integers, Sequences, FiniteSets, TLC

\* ------------------------------------------------------------------------
\* Bounds of the model
\* ------------------------------------------------------------------------
\* longest CSV that is explored (number of data rows)
MaxRows == 3

\* ------------------------------------------------------------------------
\* Program constants
\* ------------------------------------------------------------------------
DefaultLo == 1990
LongFilmThreshold == 150
TopN == 10
ExplorerHead == 20

\* missing values: NaN in a numeric column, NaN/None in an object column
NaN == -1
NA == <<"<NA>">>

Unknown == <<"U", "n", "k", "n", "o", "w", "n">>
Unclassified == <<"U", "n", "c", "l", "a", "s", "s", "i", "f", "i", "e", "d">>
Separator == <<",", " ">>

\* ------------------------------------------------------------------------
\* Characters and strings
\* ------------------------------------------------------------------------
Digits == {"0", "1", "2", "3", "4", "5", "6", "7", "8", "9"}

DigitVal(c) ==
  CASE c = "0" -> 0 [] c = "1" -> 1 [] c = "2" -> 2 [] c = "3" -> 3
    [] c = "4" -> 4 [] c = "5" -> 5 [] c = "6" -> 6 [] c = "7" -> 7
    [] c = "8" -> 8 [] c = "9" -> 9

\* code point of a character (the order Python compares strings by)
Ord(c) ==
  CASE c = " " -> 32 [] c = "(" -> 40 [] c = "+" -> 43 [] c = "," -> 44
    [] c = "." -> 46
    [] c \in Digits -> 48 + DigitVal(c)
    [] c = "A" -> 65 [] c = "B" -> 66 [] c = "C" -> 67 [] c = "D" -> 68
    [] c = "R" -> 82 [] c = "U" -> 85
    [] c = "a" -> 97 [] c = "b" -> 98 [] c = "c" -> 99 [] c = "d" -> 100
    [] c = "e" -> 101 [] c = "f" -> 102 [] c = "i" -> 105 [] c = "k" -> 107
    [] c = "l" -> 108 [] c = "m" -> 109 [] c = "n" -> 110 [] c = "o" -> 111
    [] c = "s" -> 115 [] c = "w" -> 119 [] c = "x" -> 120

\* str.lower() on one character
LowerChar(c) ==
  CASE c = "A" -> "a" [] c = "B" -> "b" [] c = "C" -> "c" [] c = "D" -> "d"
    [] c = "R" -> "r" [] c = "U" -> "u"
    [] OTHER -> c

\* s < t for two strings, by code point, a proper prefix sorting first
RECURSIVE StrLess(_, _)
StrLess(s, t) ==
  IF t = <<>> THEN FALSE
  ELSE IF s = <<>> THEN TRUE
  ELSE IF Ord(Head(s)) # Ord(Head(t)) THEN Ord(Head(s)) < Ord(Head(t))
  ELSE StrLess(Tail(s), Tail(t))

\* s[i..] starts with p
StartsWith(s, p) ==
  /\ Len(p) <= Len(s)
  /\ \A i \in 1..Len(p) : s[i] = p[i]

\* str.split(sep) of a string: always at least one piece
RECURSIVE SplitFrom(_, _, _)
SplitFrom(s, sep, cur) ==
  IF s = <<>> THEN <<cur>>
  ELSE IF StartsWith(s, sep)
    THEN <<cur>> \o SplitFrom(SubSeq(s, Len(sep) + 1, Len(s)), sep, <<>>)
    ELSE SplitFrom(Tail(s), sep, Append(cur, Head(s)))

Split(s, sep) == SplitFrom(s, sep, <<>>)

\* decimal value of a string of digits
RECURSIVE DigitsToInt(_, _)
DigitsToInt(s, acc) ==
  IF s = <<>> THEN acc ELSE DigitsToInt(Tail(s), acc * 10 + DigitVal(Head(s)))

\* the longest run of digits at the start of s
RECURSIVE LeadingDigits(_)
LeadingDigits(s) ==
  IF s = <<>> \/ Head(s) \notin Digits THEN <<>>
  ELSE <<Head(s)>> \o LeadingDigits(Tail(s))

\* str.extract(r'(\d+)'): the first run of digits anywhere in s, NaN if none
RECURSIVE ExtractDigits(_)
ExtractDigits(s) ==
  IF s = <<>> THEN NaN
  ELSE IF Head(s) \in Digits THEN DigitsToInt(LeadingDigits(s), 0)
  ELSE ExtractDigits(Tail(s))

\* astype(str) of an object cell: a missing value becomes the text "nan"
AsStr(c) == IF c = NA THEN <<"n", "a", "n">> ELSE c

\* pd.to_numeric(errors='coerce') of one cell: a number, or NaN when the
\* cell is missing or is not a number
ToNumeric(c) ==
  IF c = NA \/ c = <<>> THEN NaN
  ELSE IF \A i \in 1..Len(c) : c[i] \in Digits THEN DigitsToInt(c, 0)
  ELSE NaN

\* ------------------------------------------------------------------------
\* The CSV file and load_and_clean_data
\* ------------------------------------------------------------------------
\* pd.read_csv: an empty field is read as a missing value
ReadCell(c) == IF c = <<>> THEN NA ELSE c

Row(t, y, r, g, a) ==
  [title |-> t, year |-> y, runtime |-> r, genre |-> g, rating |-> a]

\* the data rows a CSV file of the model is made of (fields as written in
\* the file: title, year, runtime, genre, rating)
CsvRows ==
  { Row(<<"A", "b">>, <<"1", "9", "9", "0">>, <<"9", "0", "m">>,
        <<"D", ",", " ", "C">>, <<"R">>),
    Row(<<"b", "a">>, <<"1", "9", "9", "0">>, <<>>,
        <<>>, <<>>),
    Row(<<>>, <<"1", "9", "9", "2">>, <<"m", "1", "2">>,
        <<"C">>, <<"1", "3", "+">>),
    Row(<<"A", "b">>, <<"x">>, <<"9", "0", "m">>,
        <<"C">>, <<"R">>),
    Row(<<"b", "a">>, <<>>, <<>>,
        <<"C", ",", " ", "D">>, <<"1", "3", "+">>),
    Row(<<"b">>, <<"1", "9", "8", "9">>, <<"1", "6", "0">>,
        <<"D", ",", " ", "D">>, <<>>) }

RECURSIVE SeqsUpTo(_, _)
SeqsUpTo(S, n) ==
  IF n = 0 THEN {<<>>}
  ELSE LET shorter == SeqsUpTo(S, n - 1)
       IN  shorter \cup {Append(s, x) : s \in {t \in shorter : Len(t) = n - 1}, x \in S}

CsvFiles == SeqsUpTo(CsvRows, MaxRows)

\* variant of FillNa: the column is copied without filling
FillNaNoop(c, value) == c

\* Series.fillna(value) of one object cell
FillNa(c, value) == IF c = NA THEN value ELSE c

\* floor division of a year column value, NaN propagating
Decade(y) == IF y = NaN THEN NaN ELSE (y \div 10) * 10

\* one row of the frame returned by load_and_clean_data
CleanRow(raw) ==
  LET title   == ReadCell(raw.title)
      runtime == ReadCell(raw.runtime)
      genre   == ReadCell(raw.genre)
      rating  == ReadCell(raw.rating)
      year    == ToNumeric(ReadCell(raw.year))
  IN  [ title        |-> title,
        year         |-> year,
        runtime_min  |-> ExtractDigits(AsStr(runtime)),
        decade       |-> Decade(year),
        genre_list   |-> Split(FillNa(genre, Unknown), Separator),
        rating       |-> rating,
        rating_clean |-> FillNa(rating, Unclassified) ]

load_and_clean_data(file) == [i \in 1..Len(file) |-> CleanRow(file[i])]

\* ------------------------------------------------------------------------
\* Dataframe primitives
\* ------------------------------------------------------------------------
Min(a, b) == IF a <= b THEN a ELSE b
Max(a, b) == IF a >= b THEN a ELSE b

Range(s) == {s[i] : i \in 1..Len(s)}

\* comparisons of a numeric column value with a number: NaN compares False
Ge(v, n) == v # NaN /\ v >= n
Le(v, n) == v # NaN /\ v <= n
Gt(v, n) == v # NaN /\ v > n

\* DataFrame.head(n)
head(s, n) == SubSeq(s, 1, Min(n, Len(s)))

\* number of rows of d satisfying the test
CountRows(d, Test(_)) == Cardinality({i \in 1..Len(d) : Test(d[i])})

\* the elements of a finite set in ascending order of Less
SortSet(S, Less(_, _)) ==
  [i \in 1..Cardinality(S) |->
     CHOOSE x \in S : Cardinality({y \in S : Less(y, x)}) = i - 1]

IntLess(a, b) == a < b

\* Series.min() / Series.max() of the year column: NaN values are skipped,
\* NaN when nothing is left
YearValues(d) == {d[i].year : i \in 1..Len(d)} \ {NaN}
SeriesMin(S) == IF S = {} THEN NaN ELSE CHOOSE x \in S : \A y \in S : x <= y
SeriesMax(S) == IF S = {} THEN NaN ELSE CHOOSE x \in S : \A y \in S : x >= y

\* variant of BooleanMask: the lower bound is exclusive
BooleanMaskExclusive(r, lo, hi) == Gt(r.year, lo) /\ Le(r.year, hi)

\* df[(df['year'] >= lo) & (df['year'] <= hi)]
BooleanMask(r, lo, hi) == Ge(r.year, lo) /\ Le(r.year, hi)
FilterByYearRange(d, lo, hi) == SelectSeq(d, LAMBDA r : BooleanMask(r, lo, hi))

\* variant of GroupByYear: distinct titles per year instead of rows per year
GroupByYearNunique(d) ==
  LET keys == SortSet(YearValues(d), IntLess)
  IN  [k \in 1..Len(keys) |->
         [year |-> keys[k],
          film_count |->
            Cardinality({d[i].title : i \in {j \in 1..Len(d) : d[j].year = keys[k]}})]]

\* groupby('year').size().reset_index(name='film_count'): one row per year
\* present, keys in ascending order (groupby sorts its keys, drops NaN keys)
GroupByYear(d) ==
  LET keys == SortSet(YearValues(d), IntLess)
  IN  [k \in 1..Len(keys) |->
         [year |-> keys[k],
          film_count |-> CountRows(d, LAMBDA r : r.year = keys[k])]]

\* sort_values('year') of the grouped frame
SortByYear(rows) ==
  [i \in 1..Len(rows) |->
     CHOOSE r \in Range(rows) :
       Cardinality({q \in Range(rows) : q.year < r.year}) = i - 1]

YearlyCounts(d) == SortByYear(GroupByYear(d))

\* variant of IdxMax: the last row holding the maximum
IdxMaxLast(rows) ==
  CHOOSE i \in 1..Len(rows) :
    /\ \A j \in 1..Len(rows) : rows[j].film_count <= rows[i].film_count
    /\ \A j \in (i + 1)..Len(rows) : rows[j].film_count < rows[i].film_count

\* Series.idxmax() of film_count: the label of the first row holding the
\* maximum (the frame has a fresh 0..n-1 index, modelled 1..n)
IdxMax(rows) ==
  CHOOSE i \in 1..Len(rows) :
    /\ \A j \in 1..Len(rows) : rows[j].film_count <= rows[i].film_count
    /\ \A j \in 1..(i - 1) : rows[j].film_count < rows[i].film_count

\* explode('genre_list'): one row per element of each record's list, in
\* record order
RECURSIVE Explode(_)
Explode(d) ==
  IF d = <<>> THEN <<>> ELSE Head(d).genre_list \o Explode(Tail(d))

\* groupby('genre_list').size().reset_index(name='film_count') of the
\* exploded frame: keys in ascending string order
GroupByGenre(d) ==
  LET ex   == Explode(d)
      keys == SortSet(Range(ex), StrLess)
  IN  [k \in 1..Len(keys) |->
         [genre_list |-> keys[k],
          film_count |-> Cardinality({i \in 1..Len(ex) : ex[i] = keys[k]})]]

\* all orderings of the rows of a frame
Perms(rows) ==
  {p \in [1..Len(rows) -> Range(rows)] : Range(p) = Range(rows)}

\* variant of SortByCountDesc: ascending order
SortByCountAsc(rows) ==
  {p \in Perms(rows) :
     \A i, j \in 1..Len(p) : i < j => p[i].film_count <= p[j].film_count}

\* sort_values('film_count', ascending=False): the default sort kind is
\* quicksort, which is not stable, so rows with equal counts may come out in
\* any order: the set of results the sort can produce
SortByCountDesc(rows) ==
  {p \in Perms(rows) :
     \A i, j \in 1..Len(p) : i < j => p[i].film_count >= p[j].film_count}

\* variant of RatingDist: grouped by the raw rating column, whose missing
\* values groupby drops
RatingDistRaw(d) ==
  LET keys == SortSet({d[i].rating : i \in 1..Len(d)} \ {NA}, StrLess)
  IN  [k \in 1..Len(keys) |->
         [rating |-> keys[k],
          film_count |-> CountRows(d, LAMBDA r : r.rating = keys[k])]]

\* groupby('rating_clean').size().reset_index(name='film_count')
\*   .rename(columns={'rating_clean': 'rating'})
RatingDist(d) ==
  LET keys == SortSet({d[i].rating_clean : i \in 1..Len(d)}, StrLess)
  IN  [k \in 1..Len(keys) |->
         [rating |-> keys[k],
          film_count |-> CountRows(d, LAMBDA r : r.rating_clean = keys[k])]]

\* groupby(['decade', 'rating_clean']).size().reset_index(name='film_count'):
\* observed pairs only, by decade and then by rating
PairLess(a, b) ==
  \/ a[1] < b[1]
  \/ a[1] = b[1] /\ StrLess(a[2], b[2])

RatingDecade(d) ==
  LET pairs == {<<d[i].decade, d[i].rating_clean>> : i \in 1..Len(d)}
      keys  == SortSet({p \in pairs : p[1] # NaN}, PairLess)
  IN  [k \in 1..Len(keys) |->
         [decade |-> keys[k][1], rating_clean |-> keys[k][2],
          film_count |->
            CountRows(d, LAMBDA r : r.decade = keys[k][1]
                                    /\ r.rating_clean = keys[k][2])]]

\* a / b rounded to the nearest integer, halves to the even neighbour (the
\* rounding of the format specs .0f and .1f), for a >= 0 and b > 0
RoundDiv(a, b) ==
  LET q == a \div b
      r == a % b
  IN  IF 2 * r < b THEN q
      ELSE IF 2 * r > b THEN q + 1
      ELSE IF q % 2 = 0 THEN q ELSE q + 1

RECURSIVE SumRuntime(_)
SumRuntime(d) ==
  IF d = <<>> THEN 0
  ELSE (IF Head(d).runtime_min = NaN THEN 0 ELSE Head(d).runtime_min)
       + SumRuntime(Tail(d))

\* the text of the "Average Runtime" tile: the mean of the runtimes present
\* rounded to whole minutes, NaN standing for "N/A" (mean of nothing is NaN)
AvgRuntimeText(d) ==
  LET n == CountRows(d, LAMBDA r : r.runtime_min # NaN)
  IN  IF n = 0 THEN NaN ELSE RoundDiv(SumRuntime(d), n)

\* the delta text of a KPI tile, in tenths of a percent: "0%" when there is
\* no film
PercentText(count, total) ==
  IF total # 0 THEN RoundDiv(count * 1000, total) ELSE 0

\* ------------------------------------------------------------------------
\* Title search: Series.str.contains(search, case=False, na=False)
\* ------------------------------------------------------------------------
\* The pattern is compiled as a regular expression (regex=True is the
\* default).  Patterns of the model are made of letters, "." and "(":
\* "." matches any character, an unclosed "(" does not compile.
RegexCompiles(pat) == \A i \in 1..Len(pat) : pat[i] # "("

RegexMatchAt(s, i, pat) ==
  \A k \in 1..Len(pat) :
    /\ i + k - 1 <= Len(s)
    /\ \/ pat[k] = "."
       \/ LowerChar(pat[k]) = LowerChar(s[i + k - 1])

StrContains(s, pat) ==
  /\ s # NA
  /\ \E i \in 1..Len(s) : RegexMatchAt(s, i, pat)

\* ------------------------------------------------------------------------
\* State
\* ------------------------------------------------------------------------
VARIABLES
  csv,               \* data/imdb-indonesian.csv, as written on disk
  cache,             \* the st.cache_data entry of load_and_clean_data
  widget_year,       \* value held by the year slider between runs
  search,            \* value held by the title text input between runs
  pc,                \* next statement group of the running script
  err,               \* exception that stopped the run, "" if none
  df,                \* script globals, rebuilt by every run
  year_range,
  df_filtered,
  metrics,
  yearly_counts,
  peak_year,
  unclassified_rate,
  genre_sorted,      \* what sorting the genre table by count produced
  genre_leader,
  long_films,
  genre_counts,
  rating_dist,
  rating_decade,
  explorer

vars ==
  <<csv, cache, widget_year, search, pc, err, df, year_range, df_filtered,
    metrics, yearly_counts, peak_year, unclassified_rate, genre_sorted,
    genre_leader, long_films, genre_counts, rating_dist, rating_decade,
    explorer>>

\* values of script globals that the run has not assigned yet
NoFrame == <<>>
NoCache == [stored |-> FALSE, value |-> <<>>]
NoRange == <<>>
NoMetrics ==
  [total_films |-> NaN, unclassified |-> NaN, unclassified_pct |-> NaN,
   missing_runtime |-> NaN, missing_pct |-> NaN, avg_runtime |-> NaN]
NoPeak == [year |-> NaN, film_count |-> NaN]
NoLeader == [genre_list |-> NA, film_count |-> NaN]

\* text typed into the search box: nothing, a letter, two letters in the
\* other case, a dot, an opening parenthesis
Queries == {<<>>, <<"a">>, <<"B", "A">>, <<".">>, <<"(">>}

FreshGlobals ==
  /\ df' = NoFrame
  /\ year_range' = NoRange
  /\ df_filtered' = NoFrame
  /\ metrics' = NoMetrics
  /\ yearly_counts' = NoFrame
  /\ peak_year' = NoPeak
  /\ unclassified_rate' = NaN
  /\ genre_sorted' = NoFrame
  /\ genre_leader' = NoLeader
  /\ long_films' = NaN
  /\ genre_counts' = NoFrame
  /\ rating_dist' = NoFrame
  /\ rating_decade' = NoFrame
  /\ explorer' = NoFrame

Init ==
  /\ csv \in CsvFiles
  /\ cache = NoCache
  /\ widget_year = NoRange
  /\ search = <<>>
  /\ pc = "load"
  /\ err = ""
  /\ df = NoFrame
  /\ year_range = NoRange
  /\ df_filtered = NoFrame
  /\ metrics = NoMetrics
  /\ yearly_counts = NoFrame
  /\ peak_year = NoPeak
  /\ unclassified_rate = NaN
  /\ genre_sorted = NoFrame
  /\ genre_leader = NoLeader
  /\ long_films = NaN
  /\ genre_counts = NoFrame
  /\ rating_dist = NoFrame
  /\ rating_decade = NoFrame
  /\ explorer = NoFrame

\* the exceptions a run can stop with
ErrNoYear == "ValueError: cannot convert float NaN to integer"
ErrArgmax == "ValueError: attempt to get argmax of an empty sequence"
ErrIloc == "IndexError: single positional indexer is out-of-bounds"
ErrPattern == "re.error: missing ), unterminated subpattern"

\* the run stops with an exception: nothing below the raising line executes
Raise(e) ==
  /\ pc' = "error"
  /\ err' = e

\* ------------------------------------------------------------------------
\* One run of the script
\* ------------------------------------------------------------------------
\* df = load_and_clean_data(), memoized by st.cache_data: the file is read
\* and cleaned on the first call, later calls return the stored frame
Load ==
  /\ pc = "load"
  /\ cache' = IF cache.stored THEN cache
              ELSE [stored |-> TRUE, value |-> load_and_clean_data(csv)]
  /\ df' = cache'.value
  /\ pc' = "slider"
  /\ UNCHANGED <<csv, widget_year, search, err, year_range, df_filtered,
                 metrics, yearly_counts, peak_year, unclassified_rate,
                 genre_sorted, genre_leader, long_films, genre_counts, rating_dist,
                 rating_decade, explorer>>

\* the slider's default value (1990, year_max), put in order
SliderDefault(d) ==
  LET year_max == SeriesMax(YearValues(d))
  IN  <<Min(DefaultLo, year_max), Max(DefaultLo, year_max)>>

\* the range the slider offers: year_min..year_max, widened to hold the
\* default value
SliderBounds(d) ==
  <<Min(SeriesMin(YearValues(d)), SliderDefault(d)[1]),
    Max(SeriesMax(YearValues(d)), SliderDefault(d)[2])>>

\* the years the slider can be set to
SliderValues(d) ==
  IF YearValues(d) = {} THEN {} ELSE SliderBounds(d)[1]..SliderBounds(d)[2]

\* year_min, year_max and the slider: int() of a NaN minimum raises; the
\* slider returns the value it holds, its default on the first run
Slider ==
  /\ pc = "slider"
  /\ IF YearValues(df) = {}
       THEN /\ Raise(ErrNoYear)
            /\ UNCHANGED <<widget_year, year_range>>
       ELSE /\ widget_year' = IF widget_year = NoRange
                                THEN SliderDefault(df) ELSE widget_year
            /\ year_range' = widget_year'
            /\ pc' = "filter"
            /\ UNCHANGED err
  /\ UNCHANGED <<csv, cache, search, df, df_filtered, metrics, yearly_counts,
                 peak_year, unclassified_rate, genre_sorted, genre_leader, long_films,
                 genre_counts, rating_dist, rating_decade, explorer>>

\* variant of Filter: the filtered frame is also assigned back to df
FilterInPlace ==
  /\ pc = "filter"
  /\ df_filtered' = FilterByYearRange(df, year_range[1], year_range[2])
  /\ df' = df_filtered'
  /\ pc' = "kpi"
  /\ UNCHANGED <<csv, cache, widget_year, search, err, year_range,
                 metrics, yearly_counts, peak_year, unclassified_rate,
                 genre_sorted, genre_leader, long_films, genre_counts, rating_dist,
                 rating_decade, explorer>>

\* df_filtered = df[(df['year'] >= year_range[0]) & (df['year'] <= year_range[1])]
Filter ==
  /\ pc = "filter"
  /\ df_filtered' = FilterByYearRange(df, year_range[1], year_range[2])
  /\ pc' = "kpi"
  /\ UNCHANGED <<csv, cache, widget_year, search, err, df, year_range,
                 metrics, yearly_counts, peak_year, unclassified_rate,
                 genre_sorted, genre_leader, long_films, genre_counts, rating_dist,
                 rating_decade, explorer>>

\* the four KPI tiles
KpiMetrics(d) ==
  LET total_films     == Len(d)
      unclassified    == CountRows(d, LAMBDA r : r.rating_clean = Unclassified)
      missing_runtime == CountRows(d, LAMBDA r : r.runtime_min = NaN)
  IN  [total_films      |-> total_films,
       unclassified     |-> unclassified,
       unclassified_pct |-> PercentText(unclassified, total_films),
       missing_runtime  |-> missing_runtime,
       missing_pct      |-> PercentText(missing_runtime, total_films),
       avg_runtime      |-> AvgRuntimeText(d)]

\* variant of Kpi: the tiles are computed over the whole frame
KpiUnfiltered ==
  /\ pc = "kpi"
  /\ metrics' = KpiMetrics(df)
  /\ pc' = "yearly_counts"
  /\ UNCHANGED <<csv, cache, widget_year, search, err, df, year_range,
                 df_filtered, yearly_counts, peak_year, unclassified_rate,
                 genre_sorted, genre_leader, long_films, genre_counts, rating_dist,
                 rating_decade, explorer>>

Kpi ==
  /\ pc = "kpi"
  /\ metrics' = KpiMetrics(df_filtered)
  /\ pc' = "yearly_counts"
  /\ UNCHANGED <<csv, cache, widget_year, search, err, df, year_range,
                 df_filtered, yearly_counts, peak_year, unclassified_rate,
                 genre_sorted, genre_leader, long_films, genre_counts, rating_dist,
                 rating_decade, explorer>>

\* yearly_counts: films per production year of the filtered frame
ComputeYearlyCounts ==
  /\ pc = "yearly_counts"
  /\ yearly_counts' = YearlyCounts(df_filtered)
  /\ pc' = "peak_year"
  /\ UNCHANGED <<csv, cache, widget_year, search, err, df, year_range,
                 df_filtered, metrics, peak_year, unclassified_rate,
                 genre_sorted, genre_leader, long_films, genre_counts, rating_dist,
                 rating_decade, explorer>>

\* peak_year = yearly_counts.loc[yearly_counts['film_count'].idxmax()]:
\* idxmax of an empty column raises
ComputePeakYear ==
  /\ pc = "peak_year"
  /\ IF yearly_counts = <<>>
       THEN /\ Raise(ErrArgmax)
            /\ UNCHANGED peak_year
       ELSE /\ peak_year' = yearly_counts[IdxMax(yearly_counts)]
            /\ pc' = "unclassified_rate"
            /\ UNCHANGED err
  /\ UNCHANGED <<csv, cache, widget_year, search, df, year_range,
                 df_filtered, metrics, yearly_counts, unclassified_rate,
                 genre_sorted, genre_leader, long_films, genre_counts, rating_dist,
                 rating_decade, explorer>>

\* unclassified_rate, as shown with one decimal (tenths of a percent)
ComputeUnclassifiedRate ==
  /\ pc = "unclassified_rate"
  /\ unclassified_rate' =
       PercentText(metrics.unclassified, metrics.total_films)
  /\ pc' = "genre_leader"
  /\ UNCHANGED <<csv, cache, widget_year, search, err, df, year_range,
                 df_filtered, metrics, yearly_counts, peak_year,
                 genre_sorted, genre_leader, long_films, genre_counts, rating_dist,
                 rating_decade, explorer>>

\* genre_leader = <genres by count, descending>.head(1).iloc[0]: iloc[0] of
\* an empty frame raises
ComputeGenreLeader ==
  /\ pc = "genre_leader"
  /\ \E sorted \in SortByCountDesc(GroupByGenre(df_filtered)) :
       /\ genre_sorted' = sorted
       /\ IF head(sorted, 1) = <<>>
            THEN /\ Raise(ErrIloc)
                 /\ UNCHANGED genre_leader
            ELSE /\ genre_leader' = head(sorted, 1)[1]
                 /\ pc' = "long_films"
                 /\ UNCHANGED err
  /\ UNCHANGED <<csv, cache, widget_year, search, df, year_range,
                 df_filtered, metrics, yearly_counts, peak_year,
                 unclassified_rate, long_films, genre_counts, rating_dist,
                 rating_decade, explorer>>

\* long_films = (df_filtered['runtime_min'] > 150).sum()
ComputeLongFilms ==
  /\ pc = "long_films"
  /\ long_films' =
       CountRows(df_filtered, LAMBDA r : Gt(r.runtime_min, LongFilmThreshold))
  /\ pc' = "genre_counts"
  /\ UNCHANGED <<csv, cache, widget_year, search, err, df, year_range,
                 df_filtered, metrics, yearly_counts, peak_year,
                 unclassified_rate, genre_sorted, genre_leader, genre_counts, rating_dist,
                 rating_decade, explorer>>

\* genre_counts = <genres by count, descending>.head(10): the table of
\* genre_leader is built and sorted again; the sort is a function of its
\* input, so the same table comes out in the same order
ComputeGenreCounts ==
  /\ pc = "genre_counts"
  /\ \E sorted \in SortByCountDesc(GroupByGenre(df_filtered)) :
       /\ sorted = genre_sorted
       /\ genre_counts' = head(sorted, TopN)
  /\ pc' = "rating_dist"
  /\ UNCHANGED <<csv, cache, widget_year, search, err, df, year_range,
                 df_filtered, metrics, yearly_counts, peak_year,
                 unclassified_rate, genre_sorted, genre_leader, long_films,
                 rating_dist, rating_decade, explorer>>

ComputeRatingDist ==
  /\ pc = "rating_dist"
  /\ rating_dist' = RatingDist(df_filtered)
  /\ pc' = "rating_decade"
  /\ UNCHANGED <<csv, cache, widget_year, search, err, df, year_range,
                 df_filtered, metrics, yearly_counts, peak_year,
                 unclassified_rate, genre_sorted, genre_leader, long_films, genre_counts,
                 rating_decade, explorer>>

ComputeRatingDecade ==
  /\ pc = "rating_decade"
  /\ rating_decade' = RatingDecade(df_filtered)
  /\ pc' = "explorer"
  /\ UNCHANGED <<csv, cache, widget_year, search, err, df, year_range,
                 df_filtered, metrics, yearly_counts, peak_year,
                 unclassified_rate, genre_sorted, genre_leader, long_films, genre_counts,
                 rating_dist, explorer>>

\* the rows the registry explorer shows for a query
SearchTitles(d, query) ==
  SelectSeq(d, LAMBDA r : StrContains(r.title, query))

\* Film Registry Explorer: the matching rows for a query, the first 20 rows
\* without one; a query that is not a valid pattern raises
Explorer ==
  /\ pc = "explorer"
  /\ IF search # <<>>
       THEN IF RegexCompiles(search)
              THEN /\ explorer' = SearchTitles(df_filtered, search)
                   /\ pc' = "done"
                   /\ UNCHANGED err
              ELSE /\ Raise(ErrPattern)
                   /\ UNCHANGED explorer
       ELSE /\ explorer' = head(df_filtered, ExplorerHead)
            /\ pc' = "done"
            /\ UNCHANGED err
  /\ UNCHANGED <<csv, cache, widget_year, search, df, year_range,
                 df_filtered, metrics, yearly_counts, peak_year,
                 unclassified_rate, genre_sorted, genre_leader, long_films, genre_counts,
                 rating_dist, rating_decade>>

\* ------------------------------------------------------------------------
\* Widget interactions: each one changes a widget value and re-runs the
\* script from the top with fresh globals
\* ------------------------------------------------------------------------
RunEnded == pc \in {"done", "error"}

\* the user drags the year slider (it is on the page once a run reached it)
SetYearRange(lo, hi) ==
  /\ RunEnded
  /\ year_range # NoRange
  /\ lo \in SliderValues(df) /\ hi \in SliderValues(df) /\ lo <= hi
  /\ <<lo, hi>> # widget_year
  /\ widget_year' = <<lo, hi>>
  /\ pc' = "load"
  /\ err' = ""
  /\ FreshGlobals
  /\ UNCHANGED <<csv, cache, search>>

\* the user types a title query (the text input is the last element of the
\* page: it is there once a run reached the explorer)
SetSearch(query) ==
  /\ RunEnded
  /\ pc = "done" \/ err = ErrPattern
  /\ query # search
  /\ search' = query
  /\ pc' = "load"
  /\ err' = ""
  /\ FreshGlobals
  /\ UNCHANGED <<csv, cache, widget_year>>

Next ==
  \/ Load
  \/ Slider
  \/ Filter
  \/ Kpi
  \/ ComputeYearlyCounts
  \/ ComputePeakYear
  \/ ComputeUnclassifiedRate
  \/ ComputeGenreLeader
  \/ ComputeLongFilms
  \/ ComputeGenreCounts
  \/ ComputeRatingDist
  \/ ComputeRatingDecade
  \/ Explorer
  \/ \E lo \in SliderValues(df), hi \in SliderValues(df) : SetYearRange(lo, hi)
  \/ \E query \in Queries : SetSearch(query)

Spec == Init /\ [][Next]_vars

\* ------------------------------------------------------------------------
\* Properties
\* ------------------------------------------------------------------------
StepOrder ==
  <<"load", "slider", "filter", "kpi", "yearly_counts", "peak_year",
    "unclassified_rate", "genre_leader", "long_films", "genre_counts",
    "rating_dist", "rating_decade", "explorer", "done">>

StepPos(step) == CHOOSE i \in 1..Len(StepOrder) : StepOrder[i] = step

\* the step whose statement raised
RaisedAt ==
  CASE err = ErrNoYear -> "slider"
    [] err = ErrArgmax -> "peak_year"
    [] err = ErrIloc -> "genre_leader"
    [] err = ErrPattern -> "explorer"

\* the current run has executed the given step to its end
Executed(step) ==
  IF pc = "error" THEN StepPos(step) < StepPos(RaisedAt)
  ELSE StepPos(step) < StepPos(pc)

Occurrences(seq, x) == Cardinality({i \in 1..Len(seq) : seq[i] = x})

RECURSIVE SumCounts(_)
SumCounts(rows) ==
  IF rows = <<>> THEN 0 ELSE Head(rows).film_count + SumCounts(Tail(rows))

InRange(r) ==
  /\ r.year # NaN
  /\ year_range[1] <= r.year
  /\ r.year <= year_range[2]

\* first position of value x in a column
FirstIndex(col, x) == CHOOSE i \in 1..Len(col) : col[i] = x /\ \A j \in 1..(i - 1) : col[j] # x

RatingColumn(d) == [i \in 1..Len(d) |-> d[i].rating_clean]

\* C1: when the year range matches no record, the run does not raise in an
\* aggregation, and when it ends the KPI total and both percentages are 0,
\* the average runtime is "N/A" and the yearly and genre tables are empty.
C1_EmptyRangeCompletes ==
  (Executed("filter") /\ df_filtered = <<>>) =>
    /\ ~(pc = "error" /\ err \in {ErrArgmax, ErrIloc})
    /\ Executed("kpi") =>
         /\ metrics.total_films = 0
         /\ metrics.unclassified_pct = 0
         /\ metrics.missing_pct = 0
         /\ metrics.avg_runtime = NaN
    /\ Executed("yearly_counts") => yearly_counts = <<>>
    /\ Executed("genre_counts") => genre_counts = <<>>

\* C2: the filtered frame holds exactly the records of the loaded frame
\* whose year is present and within the inclusive bounds, each as often as
\* it is loaded and in load order; no record with absent year is in it.
C2_FilterExact ==
  Executed("filter") =>
    /\ \A i \in 1..Len(df_filtered) : InRange(df_filtered[i])
    /\ \A i \in 1..Len(df) :
         Occurrences(df_filtered, df[i]) =
           IF InRange(df[i]) THEN Occurrences(df, df[i]) ELSE 0
    /\ Len(df_filtered) = Cardinality({i \in 1..Len(df) : InRange(df[i])})

C2_Witness ==
  /\ Executed("filter")
  /\ \E i \in 1..Len(df) : df[i].year = NaN
  /\ \E i \in 1..Len(df) : df[i].year # NaN /\ df[i].year < year_range[1]
  /\ \E i \in 1..Len(df_filtered) : df_filtered[i].year = year_range[1]
  /\ \E i \in 1..Len(df_filtered) : df_filtered[i].year = year_range[2]

\* C3: the per-year counts add up to the size of the filtered frame, and the
\* rows are in strictly ascending year order, one per year of the frame.
C3_YearlyCountsSum ==
  Executed("yearly_counts") =>
    /\ SumCounts(yearly_counts) = Len(df_filtered)
    /\ \A i, j \in 1..Len(yearly_counts) :
         i < j => yearly_counts[i].year < yearly_counts[j].year
    /\ {yearly_counts[i].year : i \in 1..Len(yearly_counts)}
         = {df_filtered[i].year : i \in 1..Len(df_filtered)}

C3_Witness ==
  /\ Executed("yearly_counts")
  /\ Len(yearly_counts) >= 2
  /\ \E i \in 1..Len(yearly_counts) : yearly_counts[i].film_count >= 2
  /\ widget_year # SliderDefault(df)

\* C4: once loaded, every record has a rating_clean that is not missing
\* ("Unclassified" where the file has no rating) and a genre_list of at
\* least one element (["Unknown"] where the file has no genre); so has every
\* record of the frame of the run and of the filtered frame.
C4_CleanDefaults ==
  cache.stored =>
    /\ Len(cache.value) = Len(csv)
    /\ \A i \in 1..Len(cache.value) :
         /\ cache.value[i].rating_clean # NA
         /\ Len(cache.value[i].genre_list) >= 1
         /\ csv[i].rating = <<>> => cache.value[i].rating_clean = Unclassified
         /\ csv[i].genre = <<>> => cache.value[i].genre_list = <<Unknown>>
    /\ \A r \in Range(df) \cup Range(df_filtered) :
         r.rating_clean # NA /\ Len(r.genre_list) >= 1

C4_Witness ==
  /\ Executed("filter")
  /\ \E i \in 1..Len(csv) : csv[i].rating = <<>> /\ csv[i].genre = <<>>
  /\ \E i \in 1..Len(csv) : csv[i].rating # <<>> /\ Len(df[i].genre_list) = 2
  /\ \E r \in Range(df_filtered) : r.genre_list = <<Unknown>>

GenreColumn == Explode(df_filtered)

GenreCountsExact ==
  /\ \A i \in 1..Len(genre_counts) :
       genre_counts[i].film_count
         = Occurrences(GenreColumn, genre_counts[i].genre_list)
  /\ \A i, j \in 1..Len(genre_counts) :
       i # j => genre_counts[i].genre_list # genre_counts[j].genre_list
  /\ Len(genre_counts) = Min(TopN, Cardinality(Range(GenreColumn)))

\* C5 as stated: a count per genre entry, at most N rows by count
\* descending, equal counts in order of first encounter in the record set,
\* and the top genre is the first row.
C5_TiesByFirstEncounter ==
  Executed("genre_counts") =>
    /\ GenreCountsExact
    /\ \A i, j \in 1..Len(genre_counts) :
         i < j =>
           \/ genre_counts[i].film_count > genre_counts[j].film_count
           \/ /\ genre_counts[i].film_count = genre_counts[j].film_count
              /\ FirstIndex(GenreColumn, genre_counts[i].genre_list)
                   < FirstIndex(GenreColumn, genre_counts[j].genre_list)
    /\ genre_leader = genre_counts[1]

\* C5 amended: every genre entry of every filtered record counts once, the
\* table has at most N rows in descending order of count and leaves out no
\* genre with a larger count than one it shows; the top genre is the first row.  The order of
\* equal counts is whatever the sort produces, not the order of encounter.
C5_GenreCountsDescending ==
  Executed("genre_counts") =>
    /\ GenreCountsExact
    /\ \A i, j \in 1..Len(genre_counts) :
         i < j => genre_counts[i].film_count >= genre_counts[j].film_count
    /\ \A g \in Range(GenreColumn) :
         \A i \in 1..Len(genre_counts) :
           Occurrences(GenreColumn, g) > genre_counts[i].film_count =>
             \E j \in 1..Len(genre_counts) : genre_counts[j].genre_list = g
    /\ genre_leader = genre_counts[1]
    /\ \A g \in Range(GenreColumn) :
         Occurrences(GenreColumn, g) <= genre_leader.film_count

C5_Witness ==
  /\ Executed("genre_counts")
  /\ Len(genre_counts) = 3
  /\ genre_counts[1].film_count > genre_counts[2].film_count
  /\ genre_counts[2].film_count = genre_counts[3].film_count
  /\ \E r \in Range(df_filtered) : Len(r.genre_list) = 2

YearCount(y) == Cardinality({i \in 1..Len(df_filtered) : df_filtered[i].year = y})

\* C6: the peak year is the year with the most films of the filtered frame
\* with its count, the smallest such year when several share the maximum.
C6_PeakYearSmallestMax ==
  Executed("peak_year") =>
    /\ \E i \in 1..Len(yearly_counts) : yearly_counts[i] = peak_year
    /\ \E i \in 1..Len(df_filtered) : df_filtered[i].year = peak_year.year
    /\ peak_year.film_count = YearCount(peak_year.year)
    /\ \A i \in 1..Len(df_filtered) :
         /\ YearCount(df_filtered[i].year) <= peak_year.film_count
         /\ YearCount(df_filtered[i].year) = peak_year.film_count
              => peak_year.year <= df_filtered[i].year

C6_Witness ==
  /\ Executed("peak_year")
  /\ \E i, j \in 1..Len(yearly_counts) :
       /\ i # j
       /\ yearly_counts[i].film_count = peak_year.film_count
       /\ yearly_counts[j].film_count = peak_year.film_count

\* C7: once loaded, the stored record set never changes, the file is not
\* written, and the frame every run works on is that record set, whatever
\* ranges are selected, titles searched and aggregations computed.
C7_LoadedSetImmutable ==
  [][ /\ cache.stored => cache' = cache
      /\ csv' = csv
      /\ pc' # "load" => (cache'.stored /\ df' = cache'.value) ]_vars

C7_Witness ==
  /\ pc = "done"
  /\ search # <<>>
  /\ widget_year # SliderDefault(df)
  /\ Len(df_filtered) < Len(df)
  /\ Len(explorer) < Len(df_filtered)
  /\ df = cache.value

\* title contains the query as a literal substring, ignoring case
LiteralContains(title, query) ==
  /\ title # NA
  /\ \E i \in 1..(Len(title) - Len(query) + 1) :
       \A k \in 1..Len(query) :
         LowerChar(title[i + k - 1]) = LowerChar(query[k])

\* C8: for every query the explorer shows exactly the filtered records whose
\* title contains the query as a literal substring, ignoring case (records
\* without title never match); without a query, the first 20 records.
C8_LiteralSubstringSearch ==
  /\ err # ErrPattern
  /\ pc = "done" =>
       explorer =
         IF search # <<>>
           THEN SelectSeq(df_filtered, LAMBDA r : LiteralContains(r.title, search))
           ELSE SubSeq(df_filtered, 1, Min(20, Len(df_filtered)))

RatingDistExact ==
  /\ {rating_dist[i].rating : i \in 1..Len(rating_dist)}
       = Range(RatingColumn(df_filtered))
  /\ \A i \in 1..Len(rating_dist) :
       rating_dist[i].film_count
         = Occurrences(RatingColumn(df_filtered), rating_dist[i].rating)
  /\ \A i, j \in 1..Len(rating_dist) :
       i # j => rating_dist[i].rating # rating_dist[j].rating

\* C9 as stated: one row per distinct rating_clean with its count, rows in
\* the order the values are first encountered in the record set.
C9_InsertionOrder ==
  Executed("rating_dist") =>
    /\ RatingDistExact
    /\ \A i, j \in 1..Len(rating_dist) :
         i < j =>
           FirstIndex(RatingColumn(df_filtered), rating_dist[i].rating)
             < FirstIndex(RatingColumn(df_filtered), rating_dist[j].rating)

\* C9 amended: one row per distinct rating_clean with its count, rows in
\* ascending order of the rating label.
C9_LabelOrder ==
  Executed("rating_dist") =>
    /\ RatingDistExact
    /\ \A i, j \in 1..Len(rating_dist) :
         i < j => StrLess(rating_dist[i].rating, rating_dist[j].rating)

C9_Witness ==
  /\ Executed("rating_dist")
  /\ Len(rating_dist) = 3
  /\ \E i \in 1..Len(rating_dist) : rating_dist[i].rating = Unclassified
  /\ FirstIndex(RatingColumn(df_filtered), rating_dist[1].rating)
       > FirstIndex(RatingColumn(df_filtered), rating_dist[2].rating)

\* C10 as stated: records without year are not in the filtered frame but
\* are counted in the KPI total, which is the size of the unfiltered set.
C10_KpiOverUnfiltered ==
  Executed("kpi") =>
    /\ \A i \in 1..Len(df_filtered) : df_filtered[i].year # NaN
    /\ metrics.total_films = Len(df)

\* C10 amended: records without year are not in the filtered frame and are
\* not counted by the KPI tiles either: the tiles count the records of the
\* filtered frame, so the total never exceeds the size of that frame.
C10_KpiOverFiltered ==
  Executed("kpi") =>
    /\ \A i \in 1..Len(df_filtered) : df_filtered[i].year # NaN
    /\ metrics.total_films = Cardinality({i \in 1..Len(df) : InRange(df[i])})
    /\ metrics.total_films = Len(df_filtered)
    /\ metrics.unclassified
         = Cardinality({i \in 1..Len(df) :
                          InRange(df[i]) /\ df[i].rating_clean = Unclassified})
    /\ metrics.missing_runtime
         = Cardinality({i \in 1..Len(df) :
                          InRange(df[i]) /\ df[i].runtime_min = NaN})

C10_Witness ==
  /\ Executed("kpi")
  /\ \E i \in 1..Len(df) : df[i].year = NaN
  /\ \E i \in 1..Len(df) : df[i].year # NaN /\ ~InRange(df[i])
  /\ metrics.total_films > 0
  /\ metrics.total_films < Len(df)

====
